---------------------------- MODULE Spec2Model ----------------------------
(***************************************************************************)
(* Mass-balance models of oggm/core/models/massbalance.py.                 *)
(*                                                                         *)
(* One object (self) of one of the five classes is constructed and then    *)
(* driven through set_bias and get_mb.  Numbers are exact rationals        *)
(* <<numerator, denominator>>; numpy arrays are sequences of rationals.    *)
(* A returned rate keeps the divisors applied to it (SEC_IN_YEAR, RHO,     *)
(* 1000) as a list, so that the unit conversion of each class is visible.  *)
(***************************************************************************)
EXTENDS Integers, Sequences, FiniteSets, TLC

VARIABLES
    self,        \* the model object: a record of its attributes, cls names its class
    ret,         \* outcome of the last call: returned value or raised error, with locals
    nc_len,      \* history: number of months of the climate file given to the constructor
    first,       \* history: first get_mb call made at each bias value (Backwards)
    twin,        \* second Histalp object of a two-run comparison
    ret2         \* outcome of the last call on twin

vars == <<self, ret, nc_len, first, twin, ret2>>

----------------------------------------------------------------------------
(* Bounds of the model *)

\* number of samples of the elevation grid (npix; the code uses 1000)
NPix == 3

(* Program constants *)
SEC_IN_YEAR == 31536000
RHO == 900
temp_all_solid == 0
temp_all_liq == 2
temp_melt == -1

----------------------------------------------------------------------------
(* Exact rational arithmetic: the float arithmetic of numpy without rounding *)

Abs(a) == IF a < 0 THEN -a ELSE a

RECURSIVE GCD(_, _)
GCD(a, b) == IF b = 0 THEN a ELSE GCD(b, a % b)

Rat(n, d) ==
    LET g == GCD(Abs(n), Abs(d))
        s == IF d < 0 THEN -1 ELSE 1
    IN  <<(s * n) \div g, (s * d) \div g>>

Q(i) == <<i, 1>>

RAdd(a, b) == Rat(a[1] * b[2] + b[1] * a[2], a[2] * b[2])
RSub(a, b) == Rat(a[1] * b[2] - b[1] * a[2], a[2] * b[2])
RMul(a, b) == Rat(a[1] * b[1], a[2] * b[2])
RDiv(a, b) == Rat(a[1] * b[2], a[2] * b[1])
RLt(a, b) == a[1] * b[2] < b[1] * a[2]
RLe(a, b) == a[1] * b[2] <= b[1] * a[2]
RMax(a, b) == IF RLt(a, b) THEN b ELSE a
RMin(a, b) == IF RLt(b, a) THEN b ELSE a

\* np.floor of a rational, as an integer
Floor(a) == a[1] \div a[2]

\* np.sum of the elements lo..hi of an array (summed by halves)
RECURSIVE RSumRange(_, _, _)
RSumRange(s, lo, hi) ==
    IF lo > hi THEN Q(0)
    ELSE IF lo = hi THEN s[lo]
    ELSE LET mid == (lo + hi) \div 2
         IN  RAdd(RSumRange(s, lo, mid), RSumRange(s, mid + 1, hi))

RSum(s) == RSumRange(s, 1, Len(s))

RECURSIVE ArrMax(_)
ArrMax(s) == IF Len(s) = 1 THEN s[1] ELSE RMax(s[1], ArrMax(Tail(s)))

RECURSIVE ArrMin(_)
ArrMin(s) == IF Len(s) = 1 THEN s[1] ELSE RMin(s[1], ArrMin(Tail(s)))


----------------------------------------------------------------------------
(* numpy and scipy operations used by the module *)

None == <<>>

\* np.clip(x, lo, hi) on one element.  numpy >= 1.17 computes
\* minimum(maximum(x, lo), hi); older releases compare against lo first and
\* only then against hi.  The two differ exactly when lo > hi, a case numpy
\* leaves to the release: numpy_clip names the one installed.
NumpyClips == {"minimum_maximum", "compare_in_order"}

NpClip(numpy_clip, x, lo, hi) ==
    IF numpy_clip = "minimum_maximum"
    THEN RMin(RMax(x, lo), hi)
    ELSE IF RLt(x, lo) THEN lo ELSE IF RLt(hi, x) THEN hi ELSE x

\* np.linspace(a, b, n): n >= 2 evenly spaced samples, both ends included
Linspace(a, b, n) ==
    [k \in 1..n |-> RAdd(Q(a), RDiv(Q((k - 1) * (b - a)), Q(n - 1)))]

\* interp1d(x, y): the default linear interpolant, bounds_error left at its default
Interp1d(x, y) == [x |-> x, y |-> y]

\* does evaluating interpolant f at the elevations hs raise ValueError
\* (an x_new below or above the interpolation range)
InterpRaises(f, hs) ==
    \E i \in 1..Len(hs) :
        \/ RLt(Q(hs[i]), f.x[1])
        \/ RLt(f.x[Len(f.x)], Q(hs[i]))

\* linear interpolation at one in-range elevation h
InterpAt(f, h) ==
    LET n == Len(f.x)
        lo == CHOOSE k \in 1..(n - 1) :
                  /\ RLe(f.x[k], Q(h))
                  /\ RLe(Q(h), f.x[k + 1])
                  /\ \A j \in 1..(k - 1) : ~ RLe(Q(h), f.x[j + 1])
        slope == RDiv(RSub(f.y[lo + 1], f.y[lo]), RSub(f.x[lo + 1], f.x[lo]))
    IN  RAdd(f.y[lo], RMul(slope, RSub(Q(h), f.x[lo])))

\* f(heights) for in-range heights
InterpCall(f, hs) == [i \in 1..Len(hs) |-> InterpAt(f, hs[i])]

\* a returned array with the divisors applied to it so far
Quantity(v) == [v |-> v, divs |-> <<>>]
Over(q, d) == [v |-> q.v, divs |-> Append(q.divs, d)]

Returned(op, heights, year, value) ==
    [op |-> op, heights |-> heights, year |-> year, raised |-> "",
     value |-> value, pok |-> -1, temp2dformelt |-> <<>>]

Raised(op, heights, year, error) ==
    [op |-> op, heights |-> heights, year |-> year, raised |-> error,
     value |-> Quantity(<<>>), pok |-> -1, temp2dformelt |-> <<>>]

NoCall == Raised("", <<>>, None, "")

----------------------------------------------------------------------------
(* Input data: glacier directories, biases, elevations, years *)

\* in hundredths of a degree for the bias-perturbed model
Biases == {-100, 0, 100}

YearBase(y) == CASE y % 3 = 0 -> -12 [] y % 3 = 1 -> 0 [] OTHER -> 6

\* the netCDF file climate_monthly: time_len months ending in last_year
ClimateMonthly(time_len, last_year) ==
    LET first_year == last_year - (time_len \div 12) + 1
    IN  [time_len |-> time_len,
         last_year |-> last_year,
         temp |-> [i \in 1..time_len |->
                      Q(YearBase(first_year + ((i - 1) \div 12)) + ((i - 1) % 3) - 1)],
         prcp |-> [i \in 1..time_len |-> Q(60 + 20 * ((i - 1) % 2))],
         grad |-> [i \in 1..time_len |-> Rat(-1, 200)],
         ref_hgt |-> 2000]

\* a glacier directory: local_mustar.csv, model_flowlines, climate_monthly
GDir(mu_star, t_star, h_min, h_max, time_len, last_year) ==
    [mu_star |-> mu_star, t_star |-> t_star, h_min |-> h_min, h_max |-> h_max,
     nc |-> ClimateMonthly(time_len, last_year)]

GDirs ==
    { GDir(5, 1990, 2000, 2400, 264, 2004),
      GDir(5, 1990, 2000, 2400, 265, 2004),
      GDir(3, 2000, 2100, 2300, 24, 2001),
      GDir(3, 2000, 2100, 2300, 30, 2001) }

\* cfg.PARAMS['mu_star_halfperiod']
MuHalfPeriods == {0, 1}

HeightArrays == { <<2000, 2450>>, <<1850>>, <<2400, 3700>> }

\* the year argument: None, or a year in half-year steps (2 * year)
YearArgs == {None} \cup {<<y2>> : y2 \in {3998, 4001, 4002, 4003, 4004}}
\* for the classes that ignore the year
SomeYearArgs == {None, <<4001>>}
YearOf(year) == Rat(year[1], 2)

----------------------------------------------------------------------------
(* Objects *)

NotConstructed == [cls |-> "", error |-> ""]

\* a constructor that raised: no instance exists
Failed(cls, error) == [cls |-> cls, error |-> error]

Constructed(obj) == obj.cls # "" /\ obj.error = ""

\* a set_bias that also empties a bias-keyed cache
set_bias_invalidate(obj, bias) ==
    IF "_interp" \in DOMAIN obj
    THEN [[obj EXCEPT !._bias = <<bias>>] EXCEPT !._interp = <<>>]
    ELSE [obj EXCEPT !._bias = <<bias>>]

\* MassBalanceModel.set_bias
set_bias(obj, bias) == [obj EXCEPT !._bias = <<bias>>]

\* MassBalanceModel.__init__
MassBalanceModelInit(obj, bias) == set_bias([obj EXCEPT !._bias = <<0>>], bias)

----------------------------------------------------------------------------
(* ConstantBalanceModel *)

ConstantBalanceModelInit(ela_h, grad, bias) ==
    MassBalanceModelInit([cls |-> "ConstantBalanceModel", error |-> "",
                          _bias |-> <<>>, ela_h |-> ela_h, grad |-> grad], bias)

\* the bias added inside the gradient product
ConstantGetMbBiasInProduct(obj, heights, year) ==
    LET mb == [i \in 1..Len(heights) |->
                  RMul(RAdd(RSub(Q(heights[i]), Q(obj.ela_h)), Q(obj._bias[1])),
                       Q(obj.grad))]
    IN  Returned("get_mb", heights, year,
                 Over(Over(Quantity(mb), SEC_IN_YEAR), 1000))

ConstantGetMb(obj, heights, year) ==
    LET mb == [i \in 1..Len(heights) |->
                  RAdd(RMul(RSub(Q(heights[i]), Q(obj.ela_h)), Q(obj.grad)),
                       Q(obj._bias[1]))]
    IN  Returned("get_mb", heights, year,
                 Over(Over(Quantity(mb), SEC_IN_YEAR), 1000))

----------------------------------------------------------------------------
(* The monthly temperature-index terms, per elevation-month cell *)

\* temperature of month m of the series (temp, grad) moved to elevation h
TempAt(temp, grad, ref_hgt, h, m) ==
    RAdd(temp[m], RMul(grad[m], RSub(h, Q(ref_hgt))))

\* fac = np.clip(1 - (temp2d - temp_all_solid) / (temp_all_liq - temp_all_solid), 0, 1)
SolidFac(obj, t) ==
    NpClip("minimum_maximum",
           RSub(Q(1), RDiv(RSub(t, Q(obj.temp_all_solid)),
                           Q(obj.temp_all_liq - obj.temp_all_solid))),
           Q(0), Q(1))

\* (temp2d - self.temp_melt).clip(0)
BackwardsFormelt(obj, t) == RMax(RSub(t, Q(obj.temp_melt)), Q(0))

\* np.clip(temp2dformelt, 0, temp2dformelt.max())
HistalpFormelt(numpy_clip, raw, mx) == NpClip(numpy_clip, raw, Q(0), mx)

----------------------------------------------------------------------------
(* climate.mb_yearly_climate_on_height: per elevation and year of year_range
   the yearly sums of temperature above temp_melt and of solid precipitation;
   fails unless the record holds full years covering year_range *)

ProviderFails(gdir, yr) ==
    LET nc == gdir.nc
        ny == nc.time_len \div 12
    IN  \/ nc.time_len % 12 # 0
        \/ yr[1] < nc.last_year - ny + 1
        \/ yr[2] > nc.last_year

mb_yearly_climate_on_height(gdir, h, yr) ==
    LET nc == gdir.nc
        ny == nc.time_len \div 12
        y0 == nc.last_year - ny + 1
        prm == [temp_all_solid |-> temp_all_solid, temp_all_liq |-> temp_all_liq,
                temp_melt |-> temp_melt]
        cell(k, y, m) == TempAt(nc.temp, nc.grad, nc.ref_hgt, h[k], 12 * (y - y0) + m)
    IN  [t |-> [k \in 1..Len(h) |-> [j \in 1..(yr[2] - yr[1] + 1) |->
                  RSum([m \in 1..12 |->
                          BackwardsFormelt(prm, cell(k, yr[1] + j - 1, m))])]],
         p |-> [k \in 1..Len(h) |-> [j \in 1..(yr[2] - yr[1] + 1) |->
                  RSum([m \in 1..12 |->
                          RMul(nc.prcp[12 * (yr[1] + j - 1 - y0) + m],
                               SolidFac(prm, cell(k, yr[1] + j - 1, m)))])]]]

\* np.mean(a, axis=1)
MeanAxis1(a) == [k \in 1..Len(a) |-> RDiv(RSum(a[k]), Q(Len(a[k])))]

----------------------------------------------------------------------------
(* TstarMassBalanceModel and TodayMassBalanceModel *)

\* interp1d(h, mb_on_h) over the padded elevation grid, from the provider's
\* yearly series averaged over the window yr
EquilibriumInterp(gdir, yr, pad_lo, pad_hi) ==
    LET h == Linspace(gdir.h_min - pad_lo, gdir.h_max + pad_hi, NPix)
        c == mb_yearly_climate_on_height(gdir, h, yr)
        t == MeanAxis1(c.t)
        p == MeanAxis1(c.p)
        mb_on_h == [k \in 1..Len(h) |-> RSub(p[k], RMul(Q(gdir.mu_star), t[k]))]
    IN  Interp1d(h, mb_on_h)

TstarMassBalanceModelInit(gdir, mu_hp, bias) ==
    LET cls == "TstarMassBalanceModel"
        yr == <<gdir.t_star - mu_hp, gdir.t_star + mu_hp>>
    IN  IF ProviderFails(gdir, yr) THEN Failed(cls, "ClimateError")
        ELSE MassBalanceModelInit(
                 [cls |-> cls, error |-> "", _bias |-> <<>>,
                  interp |-> EquilibriumInterp(gdir, yr, 200, 1200),
                  t_star |-> gdir.t_star], bias)

TodayMassBalanceModelInit(gdir, bias) ==
    LET cls == "TodayMassBalanceModel"
        yr == <<1983, 2003>>
    IN  IF ProviderFails(gdir, yr) THEN Failed(cls, "ClimateError")
        ELSE MassBalanceModelInit(
                 [cls |-> cls, error |-> "", _bias |-> <<>>,
                  interp |-> EquilibriumInterp(gdir, yr, 100, 200)], bias)

\* the division by SEC_IN_YEAR left out
TstarGetMbRhoOnly(obj, heights, year) ==
    IF InterpRaises(obj.interp, heights)
    THEN Raised("get_mb", heights, year, "ValueError")
    ELSE LET v == InterpCall(obj.interp, heights)
             mb == [i \in 1..Len(v) |-> RAdd(v[i], Q(obj._bias[1]))]
         IN  Returned("get_mb", heights, year, Over(Quantity(mb), RHO))

\* (self.interp(heights) + self._bias) / SEC_IN_YEAR / cfg.RHO
TstarGetMb(obj, heights, year) ==
    IF InterpRaises(obj.interp, heights)
    THEN Raised("get_mb", heights, year, "ValueError")
    ELSE LET v == InterpCall(obj.interp, heights)
             mb == [i \in 1..Len(v) |-> RAdd(v[i], Q(obj._bias[1]))]
         IN  Returned("get_mb", heights, year,
                      Over(Over(Quantity(mb), SEC_IN_YEAR), RHO))

TodayGetMb(obj, heights, year) ==
    IF InterpRaises(obj.interp, heights)
    THEN Raised("get_mb", heights, year, "ValueError")
    ELSE LET v == InterpCall(obj.interp, heights)
             mb == [i \in 1..Len(v) |-> RAdd(v[i], Q(obj._bias[1]))]
         IN  Returned("get_mb", heights, year,
                      Over(Over(Quantity(mb), SEC_IN_YEAR), RHO))

----------------------------------------------------------------------------
(* BackwardsMassBalanceModel *)

\* np.arange(time[-1].year - ny + 1, time[-1].year + 1, 1)
YearsArange(nc) ==
    LET ny == nc.time_len \div 12
    IN  [j \in 1..ny |-> nc.last_year - ny + j]

\* zero-based positions of year y in yrs = years.repeat(12)
MonthsOfYear(nc, y) ==
    LET years == YearsArange(nc)
    IN  {i \in 0..(12 * Len(years) - 1) : years[(i \div 12) + 1] = y}

SetMin(S) == CHOOSE x \in S : \A y \in S : x <= y
SetMax(S) == CHOOSE x \in S : \A y \in S : y <= x

\* temp_2d = np.atleast_2d(temp).repeat(npix, 0) + grad * (heights - ref_hgt)
Temp2d(temp, grad, ref_hgt, heights) ==
    [k \in 1..Len(heights) |-> [m \in 1..Len(temp) |->
        TempAt(temp, grad, ref_hgt, heights[k], m)]]

\* the constructor with the assert on len(yrs) compiled away
BackwardsInitNoAssert(gdir, use_tstar, mu_hp, bias) ==
    LET cls == "BackwardsMassBalanceModel"
        nc == gdir.nc
        yr_range == IF use_tstar
                    THEN <<gdir.t_star - mu_hp, gdir.t_star + mu_hp>>
                    ELSE <<1983, 2003>>
    IN  IF MonthsOfYear(nc, yr_range[1]) = {} \/ MonthsOfYear(nc, yr_range[2]) = {}
        THEN Failed(cls, "ValueError")
        ELSE
        LET p0 == SetMin(MonthsOfYear(nc, yr_range[1]))
            p1 == SetMax(MonthsOfYear(nc, yr_range[2])) + 1
            temp == SubSeq(nc.temp, p0 + 1, p1)
            prcp == SubSeq(nc.prcp, p0 + 1, p1)
            grad == SubSeq(nc.grad, p0 + 1, p1)
            heights == Linspace(gdir.h_min - 200, gdir.h_max + 1200, NPix)
        IN  IF Len(temp) % 12 # 0 THEN Failed(cls, "ValueError")
            ELSE
            MassBalanceModelInit(
                [cls |-> cls, error |-> "", _bias |-> <<>>,
                 mu_star |-> gdir.mu_star,
                 temp_all_solid |-> temp_all_solid,
                 temp_all_liq |-> temp_all_liq,
                 temp_melt |-> temp_melt,
                 ny |-> Len(temp) \div 12,
                 _interp |-> <<>>,
                 n_built |-> 0,
                 heights |-> heights,
                 temp_2d |-> Temp2d(temp, grad, nc.ref_hgt, heights),
                 prcpsol |-> [k \in 1..NPix |-> prcp]], bias)

BackwardsMassBalanceModelInit(gdir, use_tstar, mu_hp, bias) ==
    LET cls == "BackwardsMassBalanceModel"
        nc == gdir.nc
        yr_range == IF use_tstar
                    THEN <<gdir.t_star - mu_hp, gdir.t_star + mu_hp>>
                    ELSE <<1983, 2003>>
        ny0 == nc.time_len \div 12
    IN  IF 12 * ny0 # nc.time_len THEN Failed(cls, "AssertionError")
        ELSE IF MonthsOfYear(nc, yr_range[1]) = {} \/ MonthsOfYear(nc, yr_range[2]) = {}
        THEN Failed(cls, "ValueError")
        ELSE
        LET p0 == SetMin(MonthsOfYear(nc, yr_range[1]))
            p1 == SetMax(MonthsOfYear(nc, yr_range[2])) + 1
            temp == SubSeq(nc.temp, p0 + 1, p1)
            prcp == SubSeq(nc.prcp, p0 + 1, p1)
            grad == SubSeq(nc.grad, p0 + 1, p1)
            heights == Linspace(gdir.h_min - 200, gdir.h_max + 1200, NPix)
        IN  IF Len(temp) % 12 # 0 THEN Failed(cls, "ValueError")
            ELSE
            MassBalanceModelInit(
                [cls |-> cls, error |-> "", _bias |-> <<>>,
                 mu_star |-> gdir.mu_star,
                 temp_all_solid |-> temp_all_solid,
                 temp_all_liq |-> temp_all_liq,
                 temp_melt |-> temp_melt,
                 ny |-> Len(temp) \div 12,
                 _interp |-> <<>>,
                 n_built |-> 0,
                 heights |-> heights,
                 temp_2d |-> Temp2d(temp, grad, nc.ref_hgt, heights),
                 prcpsol |-> [k \in 1..NPix |-> prcp]], bias)

\* the sign of the offset reversed
DeltaTPositive(bias) == Rat(bias, 100)

\* delta_t = - self._bias / 100.
DeltaT(bias) == Rat(-bias, 100)

\* the annual balance on the elevation grid for a temperature offset
BackwardsMbAnnual(obj, delta_t) ==
    [k \in 1..Len(obj.heights) |->
        RDiv(RSum([m \in 1..Len(obj.temp_2d[k]) |->
                      LET t == RAdd(obj.temp_2d[k][m], delta_t)
                      IN  RSub(RMul(obj.prcpsol[k][m], SolidFac(obj, t)),
                               RMul(Q(obj.mu_star), BackwardsFormelt(obj, t)))]),
             Q(obj.ny))]

\* a membership test that never finds the key: every call builds
InCacheNever(obj) == FALSE

\* is the current bias a key of the dict self._interp
InCache(obj) == obj._bias[1] \in DOMAIN obj._interp

\* _get_interp: the object after the call; the interpolant it returns is
\* the entry of self._interp at the current bias.  n_built counts the calls
\* of interp1d, as a test's build counter would.
GetInterp(obj) ==
    IF ~ InCache(obj)
    THEN [ [obj EXCEPT !._interp =
               (obj._bias[1] :> Interp1d(obj.heights,
                                         BackwardsMbAnnual(obj, DeltaT(obj._bias[1]))))
               @@ obj._interp]
           EXCEPT !.n_built = @ + 1 ]
    ELSE obj

\* interp(heights) / SEC_IN_YEAR / cfg.RHO
BackwardsGetMb(obj, heights, year) ==
    LET interp == GetInterp(obj)._interp[obj._bias[1]]
    IN  IF InterpRaises(interp, heights)
        THEN Raised("get_mb", heights, year, "ValueError")
        ELSE Returned("get_mb", heights, year,
                      Over(Over(Quantity(InterpCall(interp, heights)),
                                SEC_IN_YEAR), RHO))

----------------------------------------------------------------------------
(* HistalpMassBalanceModel *)

HistalpMassBalanceModelInit(gdir) ==
    LET cls == "HistalpMassBalanceModel"
        nc == gdir.nc
    IN  IF nc.time_len % 12 # 0 THEN Failed(cls, "ValueError")
        ELSE [cls |-> cls, error |-> "", _bias |-> <<>>,
              mu_star |-> gdir.mu_star,
              temp_all_solid |-> temp_all_solid,
              temp_all_liq |-> temp_all_liq,
              temp_melt |-> temp_melt,
              years |-> YearsArange(nc),
              temp |-> nc.temp, prcp |-> nc.prcp, grad |-> nc.grad,
              ref_hgt |-> nc.ref_hgt]

\* the year rounded up instead of down
YearMatchesCeil(obj, year) ==
    {i \in 0..(Len(obj.years) - 1) : obj.years[i + 1] = -Floor(Rat(-year[1], 2))}

\* zero-based indices i with self.years[i] == np.floor(year)
YearMatches(obj, year) ==
    {i \in 0..(Len(obj.years) - 1) : obj.years[i + 1] = Floor(YearOf(year))}

\* the months 12*pok .. 12*pok+11 of a series
Block(series, pok) == SubSeq(series, 12 * pok + 1, 12 * pok + 12)

\* the annual balance of the block pok at the given elevations, with the
\* clipped melt term of every cell
HistalpKernel(obj, heights, pok, numpy_clip) ==
    LET temp2d == Temp2d(Block(obj.temp, pok), Block(obj.grad, pok), obj.ref_hgt,
                         [k \in 1..Len(heights) |-> Q(heights[k])])
        raw == [k \in 1..Len(heights) |-> [m \in 1..12 |->
                   RSub(temp2d[k][m], Q(obj.temp_melt))]]
        mx == ArrMax([k \in 1..Len(heights) |-> ArrMax(raw[k])])
        temp2dformelt == [k \in 1..Len(heights) |-> [m \in 1..12 |->
                             HistalpFormelt(numpy_clip, raw[k][m], mx)]]
        iprcp == Block(obj.prcp, pok)
        mb_annual == [k \in 1..Len(heights) |->
                        RSum([m \in 1..12 |->
                            RSub(RMul(iprcp[m], SolidFac(obj, temp2d[k][m])),
                                 RMul(Q(obj.mu_star), temp2dformelt[k][m]))])]
    IN  [mb_annual |-> mb_annual, temp2dformelt |-> temp2dformelt]

\* a get_mb that adds the bias to the annual balance, as the other classes do
HistalpGetMbWithBias(obj, heights, year, numpy_clip) ==
    IF year = None THEN Raised("get_mb", heights, year, "TypeError")
    ELSE IF YearMatches(obj, year) = {}
    THEN Raised("get_mb", heights, year, "IndexError")
    ELSE IF obj._bias = <<>> THEN Raised("get_mb", heights, year, "AttributeError")
    ELSE LET pok == SetMin(YearMatches(obj, year))
             k == HistalpKernel(obj, heights, pok, numpy_clip)
             mb == [i \in 1..Len(heights) |-> RAdd(k.mb_annual[i], Q(obj._bias[1]))]
         IN  [op |-> "get_mb", heights |-> heights, year |-> year, raised |-> "",
              value |-> Over(Over(Quantity(mb), SEC_IN_YEAR), RHO),
              pok |-> pok, temp2dformelt |-> k.temp2dformelt]

HistalpGetMb(obj, heights, year, numpy_clip) ==
    IF year = None THEN Raised("get_mb", heights, year, "TypeError")
    ELSE IF YearMatches(obj, year) = {}
    THEN Raised("get_mb", heights, year, "IndexError")
    ELSE LET pok == SetMin(YearMatches(obj, year))
             k == HistalpKernel(obj, heights, pok, numpy_clip)
         IN  [op |-> "get_mb", heights |-> heights, year |-> year, raised |-> "",
              value |-> Over(Over(Quantity(k.mb_annual), SEC_IN_YEAR), RHO),
              pok |-> pok, temp2dformelt |-> k.temp2dformelt]

----------------------------------------------------------------------------
(* Actions: construction *)

ElaHeights == {2000, 2450}
Grads == {3, 4}
Init ==
    /\ self = NotConstructed
    /\ ret = NoCall
    /\ nc_len = 0
    /\ first = <<>>
    /\ twin = NotConstructed
    /\ ret2 = NoCall

NewConstant ==
    \E ela_h \in ElaHeights, grad \in Grads, bias \in Biases :
        /\ self = NotConstructed
        /\ self' = ConstantBalanceModelInit(ela_h, grad, bias)
        /\ UNCHANGED <<ret, nc_len, first, twin, ret2>>

NewTstar ==
    \E gdir \in GDirs, mu_hp \in MuHalfPeriods, bias \in Biases :
        /\ self = NotConstructed
        /\ self' = TstarMassBalanceModelInit(gdir, mu_hp, bias)
        /\ nc_len' = gdir.nc.time_len
        /\ UNCHANGED <<ret, first, twin, ret2>>

NewToday ==
    \E gdir \in GDirs, bias \in Biases :
        /\ self = NotConstructed
        /\ self' = TodayMassBalanceModelInit(gdir, bias)
        /\ nc_len' = gdir.nc.time_len
        /\ UNCHANGED <<ret, first, twin, ret2>>

NewBackwards ==
    \E gdir \in GDirs, use_tstar \in BOOLEAN, mu_hp \in MuHalfPeriods, bias \in Biases :
        /\ self = NotConstructed
        /\ self' = BackwardsMassBalanceModelInit(gdir, use_tstar, mu_hp, bias)
        /\ nc_len' = gdir.nc.time_len
        /\ UNCHANGED <<ret, first, twin, ret2>>

NewHistalp ==
    \E gdir \in GDirs :
        /\ self = NotConstructed
        /\ self' = HistalpMassBalanceModelInit(gdir)
        /\ nc_len' = gdir.nc.time_len
        /\ UNCHANGED <<ret, first, twin, ret2>>

(* Actions: the public operations *)

SetBias ==
    \E bias \in Biases :
        /\ Constructed(self)
        /\ self' = set_bias(self, bias)
        /\ ret' = [NoCall EXCEPT !.op = "set_bias"]
        /\ UNCHANGED <<nc_len, first, twin, ret2>>

GetMbConstant ==
    \E heights \in HeightArrays, year \in SomeYearArgs :
        /\ Constructed(self) /\ self.cls = "ConstantBalanceModel"
        /\ ret' = ConstantGetMb(self, heights, year)
        /\ UNCHANGED <<self, nc_len, first, twin, ret2>>

GetMbTstar ==
    \E heights \in HeightArrays, year \in SomeYearArgs :
        /\ Constructed(self) /\ self.cls = "TstarMassBalanceModel"
        /\ ret' = TstarGetMb(self, heights, year)
        /\ UNCHANGED <<self, nc_len, first, twin, ret2>>

GetMbToday ==
    \E heights \in HeightArrays, year \in SomeYearArgs :
        /\ Constructed(self) /\ self.cls = "TodayMassBalanceModel"
        /\ ret' = TodayGetMb(self, heights, year)
        /\ UNCHANGED <<self, nc_len, first, twin, ret2>>

GetMbBackwards ==
    /\ Constructed(self) /\ self.cls = "BackwardsMassBalanceModel"
    /\ LET after == GetInterp(self)
       IN  \E heights \in HeightArrays, year \in SomeYearArgs :
               LET r == BackwardsGetMb(after, heights, year)
               IN  /\ self' = after
                   /\ ret' = r
                   /\ first' = IF self._bias[1] \in DOMAIN first THEN first
                               ELSE (self._bias[1] :>
                                        [heights |-> heights, raised |-> r.raised,
                                         value |-> r.value]) @@ first
    /\ UNCHANGED <<nc_len, twin, ret2>>

GetMbHistalp ==
    \E heights \in HeightArrays, year \in YearArgs, numpy_clip \in NumpyClips :
        /\ Constructed(self) /\ self.cls = "HistalpMassBalanceModel"
        /\ ret' = HistalpGetMb(self, heights, year, numpy_clip)
        /\ UNCHANGED <<self, nc_len, first, twin, ret2>>

Next ==
    \/ NewConstant
    \/ NewTstar
    \/ NewToday
    \/ NewBackwards
    \/ NewHistalp
    \/ SetBias
    \/ GetMbConstant
    \/ GetMbTstar
    \/ GetMbToday
    \/ GetMbBackwards
    \/ GetMbHistalp

Spec == Init /\ [][Next]_vars

(* Two Histalp objects built from the same glacier directory; their set_bias
   histories are independent and every get_mb call is made on both with the
   same arguments *)

NewHistalpPair ==
    \E gdir \in GDirs :
        /\ self = NotConstructed
        /\ self' = HistalpMassBalanceModelInit(gdir)
        /\ twin' = HistalpMassBalanceModelInit(gdir)
        /\ nc_len' = gdir.nc.time_len
        /\ UNCHANGED <<ret, first, ret2>>

SetBiasSelf ==
    \E bias \in Biases :
        /\ Constructed(self)
        /\ self' = set_bias(self, bias)
        /\ ret' = [NoCall EXCEPT !.op = "set_bias"]
        /\ UNCHANGED <<nc_len, first, twin, ret2>>

SetBiasTwin ==
    \E bias \in Biases :
        /\ Constructed(twin)
        /\ twin' = set_bias(twin, bias)
        /\ ret2' = [NoCall EXCEPT !.op = "set_bias"]
        /\ UNCHANGED <<self, ret, nc_len, first>>

PairHeightArrays == { <<2000, 2450>>, <<1850>> }
PairYearArgs == {None, <<4001>>, <<4003>>, <<4004>>}

GetMbPair ==
    \E heights \in PairHeightArrays, year \in PairYearArgs, numpy_clip \in NumpyClips :
        /\ Constructed(self) /\ Constructed(twin)
        /\ ret' = HistalpGetMb(self, heights, year, numpy_clip)
        /\ ret2' = HistalpGetMb(twin, heights, year, numpy_clip)
        /\ UNCHANGED <<self, twin, nc_len, first>>

NextPair ==
    \/ NewHistalpPair
    \/ SetBiasSelf
    \/ SetBiasTwin
    \/ GetMbPair

SpecPair == Init /\ [][NextPair]_vars

----------------------------------------------------------------------------
(* Properties *)

IsA(cls) == self.cls = cls /\ self.error = ""
GotMb == ret.op = "get_mb"
Equilibrium == {"TstarMassBalanceModel", "TodayMassBalanceModel"}
CurrentBias == self._bias[1]

\* the elevation grid built at construction
GridOf(obj) == IF obj.cls = "BackwardsMassBalanceModel" THEN obj.heights ELSE obj.interp.x

OutsideGrid(obj, hs) ==
    \E i \in 1..Len(hs) :
        \/ RLt(Q(hs[i]), ArrMin(GridOf(obj)))
        \/ RLt(ArrMax(GridOf(obj)), Q(hs[i]))

\* C1: on the t*-window, 1983-2003-window and bias-perturbed models, get_mb
\* with an elevation below the minimum or above the maximum of the grid
\* built at construction returns a value for every elevation and raises nothing.
C1_OutsideDomainReturns ==
    ( /\ self.error = ""
      /\ self.cls \in Equilibrium \cup {"BackwardsMassBalanceModel"}
      /\ GotMb
      /\ OutsideGrid(self, ret.heights) )
    => /\ ret.raised = ""
       /\ Len(ret.value.v) = Len(ret.heights)

\* C2: a get_mb call on a bias-perturbed model made while the current bias is
\* already a key of the cache leaves the cache and the build count unchanged
\* and, for the heights of the first call made at that bias, returns what that
\* first call returned.
C2_CachedBiasServed ==
    [][ ( /\ IsA("BackwardsMassBalanceModel")
          /\ ret'.op = "get_mb"
          /\ CurrentBias \in DOMAIN self._interp )
        => /\ self'._interp = self._interp
           /\ self'.n_built = self.n_built
           /\ CurrentBias \in DOMAIN first
           /\ first' = first
           /\ (ret'.heights = first[CurrentBias].heights
                 => /\ ret'.value = first[CurrentBias].value
                    /\ ret'.raised = first[CurrentBias].raised) ]_vars

\* C2 witness: a call served from the cache (not the first one at its bias)
\* that returned values, made after all three bias values had been built
C2_Witness ==
    /\ IsA("BackwardsMassBalanceModel")
    /\ GotMb /\ ret.raised = ""
    /\ self.n_built = 3
    /\ DOMAIN first = Biases
    /\ first[CurrentBias].heights # ret.heights
    /\ first[CurrentBias].raised = ""

\* C3 as stated: changing the bias of a bias-perturbed model to a value that
\* is not in the cache changes the size of the cache by exactly one entry.
C3_SetBiasGrowsCache ==
    [][ ( /\ IsA("BackwardsMassBalanceModel")
          /\ ret'.op = "set_bias"
          /\ self'._bias # self._bias
          /\ self'._bias[1] \notin DOMAIN self._interp )
        => Cardinality(DOMAIN self'._interp) = Cardinality(DOMAIN self._interp) + 1 ]_vars

\* C3 amended: set_bias leaves the cache as it is; a get_mb call made while
\* the current bias is not a key adds exactly one entry, keyed by the
\* current bias, and keeps every other entry.
C3_CacheGrowsOnFirstGetMb ==
    [][ IsA("BackwardsMassBalanceModel")
        => /\ ret'.op = "set_bias" => self'._interp = self._interp
           /\ ( ret'.op = "get_mb" /\ CurrentBias \notin DOMAIN self._interp )
              => /\ DOMAIN self'._interp = DOMAIN self._interp \cup {CurrentBias}
                 /\ Cardinality(DOMAIN self'._interp)
                      = Cardinality(DOMAIN self._interp) + 1
                 /\ \A b \in DOMAIN self._interp : self'._interp[b] = self._interp[b] ]_vars

\* C3 witness: a bias that is not a key has just been set on a model whose
\* cache holds two entries
C3_Witness ==
    /\ IsA("BackwardsMassBalanceModel")
    /\ ret.op = "set_bias"
    /\ Cardinality(DOMAIN self._interp) = 2
    /\ CurrentBias \notin DOMAIN self._interp

\* C4: on a year-varying model with record years Y0..Y1, get_mb(heights, Y)
\* with Y0 <= floor(Y) <= Y1 computes the balance from exactly the one block
\* of months 12*i .. 12*i+11 with years[i] = floor(Y); with floor(Y) outside
\* Y0..Y1 it raises and returns nothing.
C4_YearSelectsOneBlock ==
    ( IsA("HistalpMassBalanceModel") /\ GotMb /\ ret.year # None )
    => LET fy == Floor(YearOf(ret.year))
           Y0 == self.years[1]
           Y1 == self.years[Len(self.years)]
       IN  IF Y0 <= fy /\ fy <= Y1
           THEN /\ ret.raised = ""
                /\ self.years[ret.pok + 1] = fy
                /\ Cardinality({i \in 1..Len(self.years) : self.years[i] = fy}) = 1
                /\ \E numpy_clip \in NumpyClips :
                     ret.value.v =
                       HistalpKernel(self, ret.heights, fy - Y0, numpy_clip).mb_annual
           ELSE /\ ret.raised = "IndexError"
                /\ ret.value.v = <<>>

\* C4 witness: a fractional year inside the record, not its first year
C4_Witness ==
    /\ IsA("HistalpMassBalanceModel") /\ GotMb
    /\ ret.raised = ""
    /\ ret.year # None /\ ret.year[1] % 2 = 1
    /\ ret.pok > 0

\* C5 as stated: get_mb of the two equilibrium-period models divides
\* interpolant-plus-bias by ice density only.
C5_EquilibriumDividesByRhoOnly ==
    ( self.error = "" /\ self.cls \in Equilibrium /\ GotMb /\ ret.raised = "" )
    => ret.value.divs = <<RHO>>

\* C5 amended: get_mb of the equilibrium-period models divides
\* interpolant-plus-bias by seconds-in-a-year and then by ice density, the
\* same two divisors as the bias-perturbed and year-varying models.
C5_AllDivideBySecAndRho ==
    ( /\ self.error = ""
      /\ self.cls \in Equilibrium \cup {"BackwardsMassBalanceModel", "HistalpMassBalanceModel"}
      /\ GotMb /\ ret.raised = "" )
    => /\ ret.value.divs = <<SEC_IN_YEAR, RHO>>
       /\ self.cls \in Equilibrium
            => ret.value.v = [i \in 1..Len(ret.heights) |->
                                 RAdd(InterpAt(self.interp, ret.heights[i]), Q(CurrentBias))]

\* C5 witness: a t*-window model returned a rate under a non-zero bias
C5_Witness ==
    /\ IsA("TstarMassBalanceModel") /\ GotMb /\ ret.raised = ""
    /\ CurrentBias # 0

\* C6: a bias-perturbed or year-varying model constructed from a monthly
\* record whose number of months is not a multiple of 12 fails at
\* construction: no instance exists and no get_mb call is ever made on one.
C6_PartialYearsFailConstruction ==
    ( /\ self.cls \in {"BackwardsMassBalanceModel", "HistalpMassBalanceModel"}
      /\ nc_len % 12 # 0 )
    => /\ self.error \in {"AssertionError", "ValueError"}
       /\ ~ Constructed(self)
       /\ ~ GotMb

\* C6 witness: the bias-perturbed constructor failed on a record of 265 months
C6_Witness ==
    /\ self.cls = "BackwardsMassBalanceModel"
    /\ nc_len % 12 = 1
    /\ self.error = "AssertionError"

\* C7: on the constant-gradient model get_mb at elevation ela_h equals
\* bias / SEC_IN_YEAR / 1000 and the difference of get_mb at any two
\* elevations is (h2 - h1) * grad / SEC_IN_YEAR / 1000, for the bias in
\* force (constructor or set_bias) and whatever the year argument.
C7_ConstantLinear ==
    ( IsA("ConstantBalanceModel") /\ GotMb )
    => /\ ret.raised = ""
       /\ ret.value.divs = <<SEC_IN_YEAR, 1000>>
       /\ Len(ret.value.v) = Len(ret.heights)
       /\ \A i \in 1..Len(ret.heights) :
            ret.heights[i] = self.ela_h => ret.value.v[i] = Q(CurrentBias)
       /\ \A i, j \in 1..Len(ret.heights) :
            RSub(ret.value.v[j], ret.value.v[i])
              = Q((ret.heights[j] - ret.heights[i]) * self.grad)

\* C7 witness: get_mb with a year argument at two elevations, one of them
\* ela_h, under a non-zero bias
C7_Witness ==
    /\ IsA("ConstantBalanceModel") /\ GotMb
    /\ CurrentBias # 0
    /\ ret.year # None
    /\ Len(ret.heights) = 2
    /\ ret.heights[2] = self.ela_h

\* C8: two year-varying models built from the same data, whose set_bias
\* histories differ, return equal values (or raise the same error) for the
\* same get_mb(heights, year); no get_mb fails because of the bias.
C8_BiasIndependent ==
    ( /\ IsA("HistalpMassBalanceModel") /\ Constructed(twin)
      /\ ret.op = "get_mb" /\ ret2.op = "get_mb" )
    => /\ ret.heights = ret2.heights /\ ret.year = ret2.year
       /\ ret.value = ret2.value
       /\ ret.raised = ret2.raised
       /\ ret.raised \in {"", "IndexError", "TypeError"}
       /\ ret.raised = "IndexError" <=> (ret.year # None /\ YearMatches(self, ret.year) = {})
       /\ ret.raised = "TypeError" <=> ret.year = None

\* C8 witness: both objects returned values, one with a bias set and the
\* other with a different bias or none
C8_Witness ==
    /\ IsA("HistalpMassBalanceModel") /\ Constructed(twin)
    /\ ret.op = "get_mb" /\ ret2.op = "get_mb"
    /\ ret.raised = ""
    /\ self._bias # <<>> /\ self._bias # <<0>>
    /\ twin._bias # self._bias

\* C9: in get_mb of the year-varying model the melt term of every
\* elevation-month cell equals max(temperature - temp_melt, 0) and is never
\* negative, also in a year in which every cell is colder than temp_melt.
C9_MeltTermNonNegative ==
    ( IsA("HistalpMassBalanceModel") /\ GotMb /\ ret.raised = "" )
    => \A k \in 1..Len(ret.heights) : \A m \in 1..12 :
          LET t == TempAt(Block(self.temp, ret.pok), Block(self.grad, ret.pok),
                          self.ref_hgt, Q(ret.heights[k]), m)
          IN  /\ RLe(Q(0), ret.temp2dformelt[k][m])
              /\ ret.temp2dformelt[k][m] = RMax(RSub(t, Q(self.temp_melt)), Q(0))

\* C10: get_mb of the bias-perturbed model evaluates the interpolant built
\* from the precomputed temperature grid with -(current bias)/100 added to
\* every cell, whatever was set and queried before; the bias is not added to
\* the balance and the year argument does not enter the result.
C10_InterpolantOfCurrentBias ==
    ( IsA("BackwardsMassBalanceModel") /\ GotMb )
    => LET expected == Interp1d(self.heights,
                                BackwardsMbAnnual(self, Rat(-CurrentBias, 100)))
       IN  /\ CurrentBias \in DOMAIN self._interp
           /\ self._interp[CurrentBias] = expected
           /\ IF OutsideGrid(self, ret.heights)
              THEN ret.raised = "ValueError"
              ELSE /\ ret.raised = ""
                   /\ ret.value = Over(Over(Quantity(InterpCall(expected, ret.heights)),
                                            SEC_IN_YEAR), RHO)

\* C10 witness: a call with a year argument, served after three biases had
\* been built, at a non-zero bias
C10_Witness ==
    /\ IsA("BackwardsMassBalanceModel") /\ GotMb /\ ret.raised = ""
    /\ ret.year # None
    /\ CurrentBias # 0
    /\ self.n_built = 3
    /\ first[CurrentBias].heights # ret.heights
============================================================================
